---- MODULE Spec2Model ----
(***************************************************************************)
(* A model of the space-time fabric simulator:                             *)
(*   - the zustand store of src/lib/store.ts (objects, addObject,          *)
(*     updateObject, removeObject);                                        *)
(*   - the two per-frame callbacks of SpaceTimeFabric                      *)
(*     (src/components/space-time-fabric.tsx, lines 51-115 and 118-191):   *)
(*     the fabric deformation and the physics step.                        *)
(*                                                                         *)
(*   - the Home page and its SpaceTimeGrid (same file, lines 266-347 and    *)
(*     529-715): the React state, the handlers and the plane's callback.   *)
(*                                                                         *)
(* JavaScript numbers are modelled in fixed point: an integer n stands for *)
(* n / Unit, quotients are truncated toward zero, Math.sqrt is the integer *)
(* square root.  NaN is a value of its own which every arithmetic          *)
(* operation propagates and every comparison answers false on, as IEEE     *)
(* arithmetic does.                                                        *)
(***************************************************************************)
EXTENDS Integers, Sequences, FiniteSets, TLC

VARIABLES
    objects,     \* store.objects: the ordered list of bodies
    fabricY,     \* y of every vertex of the fabric plane geometry
    gridY,       \* y of every vertex of the green edges geometry
    frames,      \* number of frames run so far (bounds the exploration)
    lastOp,      \* history: the operation that produced this state
    known,       \* history: whether that operation's id was in the list
    pre,         \* history: store.objects when the last frame started
    log,         \* history: the ordered pairs the last physics frame visited
    home,        \* Home and SpaceTimeGrid: the React state, updates applied
    shown,       \* Home and SpaceTimeGrid: the state as last rendered
    plane,       \* y of the vertices of the SpaceTimeGrid plane geometry
    clock,       \* Date.now()
    events,      \* number of user events so far (bounds the exploration)
    assigned,    \* history: the ids Home.addObject has given out
    fresh        \* history: whether the last of them was a new one

storeVars == <<objects, fabricY, gridY, frames, lastOp, known, pre, log>>

homeVars == <<home, shown, plane, clock, events, assigned, fresh>>

vars == <<objects, fabricY, gridY, frames, lastOp, known, pre, log,
          home, shown, plane, clock, events, assigned, fresh>>

---------------------------------------------------------------------------
\* Numbers

Unit == 10^3

NaN == 0 - 2^30

IsNaN(a) == a = NaN

Abs(a) == IF a < 0 THEN 0 - a ELSE a

Max(a, b) == IF a >= b THEN a ELSE b

\* a / b of two integers, truncated toward zero (b # 0)
Quot(a, b) ==
    LET q == Abs(a) \div Abs(b)
    IN  IF (a < 0) = (b < 0) THEN q ELSE 0 - q

Plus(a, b) == IF IsNaN(a) \/ IsNaN(b) THEN NaN ELSE a + b

Minus(a, b) == IF IsNaN(a) \/ IsNaN(b) THEN NaN ELSE a - b

\* a > b and a < b of JavaScript: false when either side is NaN
Gt(a, b) == ~IsNaN(a) /\ ~IsNaN(b) /\ a > b

Lt(a, b) == ~IsNaN(a) /\ ~IsNaN(b) /\ a < b

\* Newton's iteration for the integer square root of n > 0, from a guess x
\* that is not below it
RECURSIVE SqrtFrom(_, _)
SqrtNext(n, x, y) == IF y >= x THEN x ELSE SqrtFrom(n, y)

SqrtFrom(n, x) == SqrtNext(n, x, (x + n \div x) \div 2)

\* Math.sqrt on a non-negative integer: the integer square root.  guess is
\* any positive number not below the result.
Sqrt(n, guess) == IF n = 0 THEN 0 ELSE SqrtFrom(n, guess)

\* Math.sqrt(dx * dx + dy * dy + dz * dz) in fixed point, m being the largest
\* component.  Components above 10 * Unit are squared at a tenth of the
\* resolution so that the sum stays inside TLC's 32-bit integers; the result
\* is never below the largest component.
Norm(dx, dy, dz, m) ==
    IF m <= 10 * Unit
      THEN Sqrt(dx * dx + dy * dy + dz * dz, 2 * m)
    ELSE IF m <= 100 * Unit
      THEN Max(m, 10 * Sqrt(Quot(dx, 10) * Quot(dx, 10)
                            + Quot(dy, 10) * Quot(dy, 10)
                            + Quot(dz, 10) * Quot(dz, 10),
                            Quot(m, 5) + 2))
    ELSE m

Hypot(dx, dy, dz) ==
    IF IsNaN(dx) \/ IsNaN(dy) \/ IsNaN(dz) THEN NaN
    ELSE Norm(dx, dy, dz, Max(Abs(dx), Max(Abs(dy), Abs(dz))))

---------------------------------------------------------------------------
\* Types (src/lib/types.ts)

Planet == "planet"

BlackHole == "blackhole"

Body(id, type, position, velocity, mass, radius) ==
    [id |-> id, type |-> type, position |-> position, velocity |-> velocity,
     mass |-> mass, radius |-> radius]

IdsOf(list) == {list[k].id : k \in 1..Len(list)}

---------------------------------------------------------------------------
\* The store (src/lib/store.ts)

\* set((state) => ({ objects: [...state.objects, object] }))
addObject(list, object) == Append(list, object)

\* state.objects.map((obj) => (obj.id === object.id ? object : obj))
updateObject(list, object) ==
    [k \in 1..Len(list) |-> IF list[k].id = object.id THEN object ELSE list[k]]

\* A removal by splice(findIndex(...), 1): an id that is not listed gives
\* index -1, which removes the last body
removeBySplice(list, id) ==
    IF id \in IdsOf(list) THEN SelectSeq(list, LAMBDA obj : obj.id # id)
    ELSE SubSeq(list, 1, Len(list) - 1)

\* state.objects.filter((obj) => obj.id !== id)
removeObject(list, id) == SelectSeq(list, LAMBDA obj : obj.id # id)

---------------------------------------------------------------------------
\* SpaceTimeFabric: constants of the component

gridSize == 20

gridDivisions == 20

\* if (distance > 10) continue
cutoff == 10

\* py < -10 || py > 10
yLimit == 10

---------------------------------------------------------------------------
\* SpaceTimeFabric: the physics callback (useFrame, lines 118-191)

\* px + vx * 0.01
Integrate(p, v) ==
    IF IsNaN(p) \/ IsNaN(v) THEN NaN ELSE p + Quot(v, 100)

\* (other.mass * 0.1) / (distance * distance), distance a positive number
ForceMagnitude(mass, distance) == Quot(mass * 100 * Unit, distance * distance)

\* <<fx, fy, fz>>: (d / distance) * forceMagnitude per component.  With
\* distance 0 this is (0 / 0) * Infinity, with a NaN anywhere it is NaN: all
\* three components are NaN.
Force(d, distance, mass) ==
    IF IsNaN(distance) \/ distance = 0 THEN <<NaN, NaN, NaN>>
    ELSE [c \in 1..3 |-> Quot(d[c] * ForceMagnitude(mass, distance), distance)]

\* a * b / c truncated toward zero, for c > 0, without forming a * b (which
\* leaves TLC's 32-bit integers when a is a large velocity)
MulDiv(a, b, c) ==
    LET s == IF (a < 0) = (b < 0) THEN 1 ELSE 0 - 1
        x == Abs(a)
        y == Abs(b)
    IN  s * ((x \div c) * y + ((x % c) * y) \div c)

\* (v1 * (m1 - m2) + 2 * m2 * v2) / totalMass
Elastic(v1, v2, m1, m2) ==
    IF IsNaN(v1) \/ IsNaN(v2) THEN NaN
    ELSE MulDiv(v1, m1 - m2, m1 + m2) + MulDiv(v2, 2 * m2, m1 + m2)

\* distance < obj.radius + other.radius
Overlap(distance, obj, other) == Lt(distance, obj.radius + other.radius)

\* A bounds test that forgets the vertical range
OutOfBoundsXZ(p) ==
    \/ (~IsNaN(p[1]) /\ Abs(p[1]) > gridSize * Unit)
    \/ (~IsNaN(p[3]) /\ Abs(p[3]) > gridSize * Unit)

\* Math.abs(px) > gridSize || Math.abs(pz) > gridSize || py < -10 || py > 10
OutOfBounds(p) ==
    \/ (~IsNaN(p[1]) /\ Abs(p[1]) > gridSize * Unit)
    \/ (~IsNaN(p[3]) /\ Abs(p[3]) > gridSize * Unit)
    \/ Lt(p[2], 0 - yLimit * Unit)
    \/ Gt(p[2], yLimit * Unit)

\* What the last physics frame did for the ordered pair (i, j)
Entry(i, j, distance, gravity, collision) ==
    [i |-> i, j |-> j, distance |-> distance, gravity |-> gravity,
     collision |-> collision]

\* if (distance < obj.radius + other.radius) { ... }, obj.velocity being
\* pulled (line 152)
Collide(obj, other, i, j, distance, pulled) ==
    IF Overlap(distance, obj, other) /\ other.type = BlackHole
      THEN [velocity |-> pulled, break |-> TRUE,
            entry |-> Entry(i, j, distance, TRUE, "absorbed")]
    ELSE IF Overlap(distance, obj, other)
            /\ obj.type = Planet /\ other.type = Planet
      THEN [velocity |-> [c \in 1..3 |->
                            Elastic(pulled[c], other.velocity[c],
                                    obj.mass, other.mass)],
            break |-> FALSE,
            entry |-> Entry(i, j, distance, TRUE, "elastic")]
    ELSE [velocity |-> pulled, break |-> FALSE,
          entry |-> Entry(i, j, distance, TRUE, "none")]

\* A gravity update without the cutoff test
AttractAll(obj, other, i, j, velocity, d, distance) ==
    Collide(obj, other, i, j, distance,
            [c \in 1..3 |->
               Plus(obj.velocity[c], Force(d, distance, other.mass)[c])])

\* if (distance > 10) continue; obj.velocity = [vx + fx, vy + fy, vz + fz]
\* with vx, vy, vz read before the inner loop (line 125)
Attract(obj, other, i, j, velocity, d, distance) ==
    IF Gt(distance, cutoff * Unit)
      THEN [velocity |-> velocity, break |-> FALSE,
            entry |-> Entry(i, j, distance, FALSE, "none")]
    ELSE Collide(obj, other, i, j, distance,
                 [c \in 1..3 |->
                    Plus(obj.velocity[c], Force(d, distance, other.mass)[c])])

\* A difference taken the other way round: the force pushes the bodies apart
Repel(obj, other) ==
    [c \in 1..3 |-> Minus(obj.position[c], other.position[c])]

\* [dx, dy, dz] = other.position - [px, py, pz]
Delta(obj, other) ==
    [c \in 1..3 |-> Minus(other.position[c], obj.position[c])]

Distance(d) == Hypot(d[1], d[2], d[3])

\* One turn of the inner loop for obj (as read at lines 124-126: its position
\* and velocity are the values before this frame moved it) against
\* updatedObjects[j].  velocity is obj.velocity as the earlier turns left it.
\* Result: the new obj.velocity, whether the loop breaks, and the log entry.
PairStep(obj, other, i, j, velocity) ==
    Attract(obj, other, i, j, velocity, Delta(obj, other),
            Distance(Delta(obj, other)))

\* for (let j = 0; j < updatedObjects.length; j++) { if (i === j) continue ... }
RECURSIVE InnerLoop(_, _, _, _, _, _)
\* An inner loop that goes on to the next body whatever the turn did
InnerTurnOn(updatedObjects, obj, i, j, entries, r) ==
    InnerLoop(updatedObjects, obj, i, j + 1, r.velocity,
              entries \cup {r.entry})

InnerTurn(updatedObjects, obj, i, j, entries, r) ==
    IF r.break
      THEN [velocity |-> r.velocity, absorbed |-> TRUE,
            entries |-> entries \cup {r.entry}]
    ELSE InnerLoop(updatedObjects, obj, i, j + 1, r.velocity,
                   entries \cup {r.entry})

InnerLoop(updatedObjects, obj, i, j, velocity, entries) ==
    IF j > Len(updatedObjects)
      THEN [velocity |-> velocity, absorbed |-> FALSE, entries |-> entries]
    ELSE IF i = j
      THEN InnerLoop(updatedObjects, obj, i, j + 1, velocity, entries)
    ELSE InnerTurn(updatedObjects, obj, i, j, entries,
                   PairStep(obj, updatedObjects[j], i, j, velocity))

\* obj.position = [px + vx * 0.01, py + vy * 0.01, pz + vz * 0.01]
Move(obj) ==
    [obj EXCEPT !.position =
        [c \in 1..3 |-> Integrate(obj.position[c], obj.velocity[c])]]

\* After the inner loop: the bounds test on the position read before the move
\* (lines 182-184), and the body handed to updateObject.
Finish(obj, r) ==
    [obj |-> [Move(obj) EXCEPT !.velocity = r.velocity],
     toRemove |-> (IF r.absorbed THEN <<obj.id>> ELSE <<>>)
                  \o (IF OutOfBounds(obj.position) THEN <<obj.id>> ELSE <<>>),
     entries |-> r.entries]

\* The body of the outer loop for index i
BodyStep(updatedObjects, i) ==
    Finish(updatedObjects[i],
           InnerLoop([updatedObjects EXCEPT ![i] = Move(updatedObjects[i])],
                     updatedObjects[i], i, 1, updatedObjects[i].velocity, {}))

\* for (let i = 0; i < updatedObjects.length; i++) { ...; updateObject(obj) }
\* The bodies are shared by reference between updatedObjects and the store, so
\* a body processed earlier is seen with its new position and velocity.
RECURSIVE OuterLoop(_, _, _, _, _)
OuterTurn(updatedObjects, store, objectsToRemove, i, entries, r) ==
    OuterLoop([updatedObjects EXCEPT ![i] = r.obj],
              updateObject(store, r.obj),
              objectsToRemove \o r.toRemove,
              i + 1, entries \cup r.entries)

OuterLoop(updatedObjects, store, objectsToRemove, i, entries) ==
    IF i > Len(updatedObjects)
      THEN [store |-> store, objectsToRemove |-> objectsToRemove,
            entries |-> entries]
    ELSE OuterTurn(updatedObjects, store, objectsToRemove, i, entries,
                   BodyStep(updatedObjects, i))

\* objectsToRemove.forEach((id) => removeObject(id))
RECURSIVE RemoveAll(_, _)
RemoveAll(store, ids) ==
    IF ids = <<>> THEN store
    ELSE RemoveAll(removeObject(store, Head(ids)), Tail(ids))

Removals(r) ==
    [objects |-> RemoveAll(r.store, r.objectsToRemove),
     objectsToRemove |-> r.objectsToRemove,
     entries |-> r.entries]

\* The whole physics callback on the rendered list.
Physics(list) == Removals(OuterLoop(list, list, <<>>, 1, {}))

---------------------------------------------------------------------------
\* SpaceTimeFabric: the deformation callback (useFrame, lines 51-115)

\* Rows of the vertex buffers the model tracks: rows 0..MaxRow
MaxRow == 0

\* The vertices of <planeGeometry args={[gridSize, gridSize, gridDivisions,
\* gridDivisions]} />, numbered row by row: vertex k is
\* (x, y, z) = (ix - gridSize/2, gridSize/2 - iy, 0) in cells of
\* gridSize / gridDivisions.  The model tracks the rows up to MaxRow; the
\* callback treats every vertex alike and no vertex depends on another.
FabricVertices ==
    {k \in 0..((gridDivisions + 1) * (gridDivisions + 1) - 1) :
        k \div (gridDivisions + 1) <= MaxRow}

VertexX(k) ==
    Quot((k % (gridDivisions + 1)) * gridSize * Unit, gridDivisions)
    - Quot(gridSize * Unit, 2)

VertexY(k) ==
    Quot(gridSize * Unit, 2)
    - Quot((k \div (gridDivisions + 1)) * gridSize * Unit, gridDivisions)

VertexZ(k) == 0

\* The vertices of <edgesGeometry args={[new THREE.PlaneGeometry(...)]} />:
\* the faces of the plane are coplanar, so only its outline has edges.
GridVertices ==
    {k \in FabricVertices :
        \/ k % (gridDivisions + 1) \in {0, gridDivisions}
        \/ k \div (gridDivisions + 1) \in {0, gridDivisions}}

\* A deformation that forgets the distance
DeformationFlat(mass, distance) ==
    IF IsNaN(distance) THEN NaN
    ELSE Quot(mass * 2 * Unit, Quot(Unit, 5))

\* (obj.mass * 2.0) / (distance + 0.2)
Deformation(mass, distance) ==
    IF IsNaN(distance) THEN NaN
    ELSE Quot(mass * 2 * Unit, distance + Quot(Unit, 5))

\* A deformation with the factor 10 for black holes that SpaceTimeGrid has
SinkByType(obj, distance, y) ==
    IF Gt(distance, obj.mass * 4) THEN y
    ELSE Minus(y, (IF obj.type = BlackHole THEN 10 ELSE 1)
                    * Deformation(obj.mass, distance))

\* if (distance > obj.mass * 4) continue; positions[i + 1] -= deformation
Sink(obj, distance, y) ==
    IF Gt(distance, obj.mass * 4) THEN y
    ELSE Minus(y, Deformation(obj.mass, distance))

\* The inner loop over the objects for one vertex, from the reset y = 0
RECURSIVE Deform(_, _, _, _, _)
Deform(list, k, x, z, y) ==
    IF k > Len(list) THEN y
    ELSE Deform(list, k + 1, x, z,
                Sink(list[k],
                     Hypot(Minus(x, list[k].position[1]), 0,
                           Minus(z, list[k].position[3])),
                     y))

\* positions[i + 1] after the callback, for the vertex at (x, z)
HeightAt(list, x, z) == Deform(list, 1, x, z, 0)

\* The y the callback leaves in the vertices of each column of the lattice:
\* the x of a vertex is that of its column and its z is 0.
Columns(list) ==
    [ix \in 0..gridDivisions |-> HeightAt(list, VertexX(ix), VertexZ(ix))]

\* A callback that does not reset y before subtracting the deformations
Unreset(column, vertices) ==
    [k \in vertices |-> Plus(VertexY(k), column[k % (gridDivisions + 1)])]

\* The y of every vertex of a geometry, given that of the columns
Heights(column, vertices) ==
    [k \in vertices |-> column[k % (gridDivisions + 1)]]

---------------------------------------------------------------------------
\* SpaceTimeGrid (lines 266-347)

\* const size = 20; const segments = 200
size == 20

segments == 200

\* Vertices of the plane geometry the model tracks: the first one, which
\* Home.addObject reads, and the one at the centre
PlaneSamples == {0, (segments \div 2) * (segments + 1) + segments \div 2}

\* gridPoints[p].position: [i, 0, j], i the outer loop and j the inner one,
\* both from -size / 2 in steps of size / segments, 201 values each
PointX(p) ==
    Quot((p \div (segments + 1)) * size * Unit, segments) - Quot(size * Unit, 2)

PointZ(p) ==
    Quot((p % (segments + 1)) * size * Unit, segments) - Quot(size * Unit, 2)

\* y of vertex p of <planeGeometry args={[20, 20, 200, 200]} /> as built
PlaneY(p) ==
    Quot(size * Unit, 2) - Quot((p \div (segments + 1)) * size * Unit, segments)

\* Math.exp(-n) for a natural number n, truncated to a thousandth
ExpInt(n) ==
    IF n = 0 THEN 1000
    ELSE IF n = 1 THEN 367
    ELSE IF n = 2 THEN 135
    ELSE IF n = 3 THEN 49
    ELSE IF n = 4 THEN 18
    ELSE IF n = 5 THEN 6
    ELSE IF n = 6 THEN 2
    ELSE 0

\* The sum of the series of Math.exp(-f), 0 <= f < 1, from the term of
\* degree k on: term is f^(k-1) / (k-1)!
RECURSIVE ExpSeries(_, _, _)
ExpSeries(f, k, term) ==
    IF k > 6 \/ term = 0 THEN 0
    ELSE term - ExpSeries(f, k + 1, Quot(term * f, k * Unit))

\* Math.exp(-x), x >= 0
ExpNeg(x) ==
    Quot(ExpInt(x \div Unit) * ExpSeries(x % Unit, 1, Unit), Unit)

\* -objMass * distortionFactor * falloff for one object at horizontal
\* distance squared d2
Distortion(obj, d2) ==
    0 - Quot((IF obj.mass = 0 THEN Unit ELSE obj.mass)
               * (IF obj.type = "blackHole" THEN 10 ELSE 1)
               * ExpNeg(Quot(d2 * 3, 10)),
             Unit)

\* newY for the point at (x, z): point.originalY plus the distortion of every
\* object
RECURSIVE Distort(_, _, _, _, _)
Distort(list, k, x, z, newY) ==
    IF k > Len(list) THEN newY
    ELSE Distort(list, k + 1, x, z,
                 newY + Distortion(list[k],
                          Quot((x - list[k].position[1])
                                 * (x - list[k].position[1])
                               + (z - list[k].position[3])
                                 * (z - list[k].position[3]),
                               Unit)))

---------------------------------------------------------------------------
\* Home (lines 529-715)

sizeProperties ==
    [small |-> [radius |-> 300, mass |-> 500],
     medium |-> [radius |-> 800, mass |-> 1500],
     large |-> [radius |-> 1500, mass |-> 3000]]

\* const newObject: CelestialObject = { id: Date.now(), ... }
newObject(type, planeY, sizeProps, now) ==
    [id |-> now, type |-> type, position |-> <<0, planeY, 0>>,
     mass |-> IF type = "blackHole" THEN sizeProps.mass * 5 ELSE sizeProps.mass,
     radius |-> sizeProps.radius, velocity |-> <<0, 0, 0>>]

\* objects.filter((obj) => obj.id !== id)
filterId(list, id) == SelectSeq(list, LAMBDA obj : obj.id # id)

\* objects.map((obj) => obj.id === id ? { ...obj, position: newPosition } : obj)
mapPosition(list, id, newPosition) ==
    [k \in 1..Len(list) |->
       IF list[k].id = id THEN [list[k] EXCEPT !.position = newPosition]
       ELSE list[k]]

---------------------------------------------------------------------------
\* Bounds of the exploration

MaxBodies == 3

MaxFrames == 2

P(x, y, z) == <<x * Unit, y * Unit, z * Unit>>

\* The bodies a caller may hand to the store, each with its own id.  Masses
\* and radii are those of the size table (small 0.5/0.3, medium 1.5/0.8,
\* large 3/1.5; a black hole has five times the mass), and the radius 2
\* black hole.
Placements ==
    { Body("p0", Planet, P(0, 0, 0), P(0, 0, 0), 1500, 800),
      Body("h3", BlackHole, P(3, 0, 0), P(0, 0, 0), 7500, 2000),
      Body("h2", BlackHole, P(2, 0, 0), P(0, 0, 0), 7500, 2000),
      Body("pa", Planet, <<0, 0, -500>>, P(0, 0, 1), 1500, 800),
      Body("pb", Planet, <<0, 0, 500>>, P(0, 0, -1), 1500, 800),
      Body("pc", Planet, <<0, 0, 500>>, P(0, 0, -1), 3000, 1500),
      Body("pd", Planet, P(15, 0, 15), P(0, 0, 0), 500, 300),
      Body("px", Planet, P(21, 0, 0), P(0, 0, 0), 500, 300),
      Body("py", Planet, P(0, 11, 0), P(0, 0, 0), 500, 300) }

Ids == {b.id : b \in Placements}

\* Home: length of the object list, readings of the clock, user events
MaxHome == 3

MaxClock == 1

MaxEvents == 4

\* Where a drag may drop a body: [x, 0, z]
Drops == {<<0 - 10 * Unit, 0, 0 - 10 * Unit>>, <<Unit, 0, 0>>}

---------------------------------------------------------------------------
\* The state machine

\* objects: [] (store.ts line 12); the geometries as three.js builds them.
InitStore ==
    /\ objects = <<>>
    /\ fabricY = [k \in FabricVertices |-> VertexY(k)]
    /\ gridY = [k \in GridVertices |-> VertexY(k)]
    /\ frames = 0
    /\ lastOp = "init"
    /\ known = FALSE
    /\ pre = <<>>
    /\ log = {}

\* The useState initial values of Home and SpaceTimeGrid (lines 268, 530-535)
\* and the plane geometry as three.js builds it.
InitHome ==
    /\ home = [objects |-> <<>>, selectedSize |-> "medium",
               planeMesh |-> FALSE, gridPoints |-> FALSE]
    /\ shown = home
    /\ plane = [p \in PlaneSamples |-> PlaneY(p)]
    /\ clock = 0
    /\ events = 0
    /\ assigned = {}
    /\ fresh = TRUE

Init == InitStore /\ InitHome

\* The callers' operations are serialized with the frames; the model explores
\* them before the first frame (frames = 0) and then lets the frames run.

\* store.addObject(object), the id being one no listed body has
AddObject ==
    /\ frames = 0
    /\ Len(objects) < MaxBodies
    /\ \E b \in Placements :
         /\ b.id \notin IdsOf(objects)
         /\ objects' = addObject(objects, b)
    /\ lastOp' = "addObject"
    /\ known' = FALSE
    /\ UNCHANGED <<fabricY, gridY, frames, pre, log>>
    /\ UNCHANGED homeVars

\* store.updateObject(object), for any id
UpdateObject ==
    /\ frames = 0
    /\ \E b \in Placements :
         /\ objects' = updateObject(objects, b)
         /\ known' = (b.id \in IdsOf(objects))
    /\ lastOp' = "updateObject"
    /\ UNCHANGED <<fabricY, gridY, frames, pre, log>>
    /\ UNCHANGED homeVars

\* store.removeObject(id), for any id
RemoveObject ==
    /\ frames = 0
    /\ \E id \in Ids :
         /\ objects' = removeObject(objects, id)
         /\ known' = (id \in IdsOf(objects))
    /\ lastOp' = "removeObject"
    /\ UNCHANGED <<fabricY, gridY, frames, pre, log>>
    /\ UNCHANGED homeVars

\* The state a frame leaves: column holds the heights the deformation
\* callback wrote, r what the physics callback did.
Commit(column, r) ==
    /\ fabricY' = Heights(column, FabricVertices)
    /\ gridY' = Heights(column, GridVertices)
    /\ objects' = r.objects
    /\ log' = r.entries
    /\ lastOp' = "frame"
    /\ known' = TRUE
    /\ pre' = objects
    /\ frames' = frames + 1
    /\ UNCHANGED homeVars

\* A frame that deforms the fabric by the list the physics callback left
StepAfterRemoval ==
    Commit(Columns(Physics(objects).objects), Physics(objects))

\* One frame: the deformation callback, then the physics callback, both on
\* the rendered list (the store's list when the frame starts).
Step == Commit(Columns(objects), Physics(objects))

Frame ==
    /\ frames < MaxFrames
    /\ Step

Next == AddObject \/ UpdateObject \/ RemoveObject \/ Frame

Spec == Init /\ [][Next]_vars

---------------------------------------------------------------------------
\* The scenario of one planet and one black hole at rest, 3 units apart

MaxRun == 60

\* The store after the two addObject calls, in either order
InitScenario ==
    /\ objects \in
         { <<Body("p0", Planet, P(0, 0, 0), P(0, 0, 0), 1500, 800),
             Body("h3", BlackHole, P(3, 0, 0), P(0, 0, 0), 7500, 2000)>>,
           <<Body("h3", BlackHole, P(3, 0, 0), P(0, 0, 0), 7500, 2000),
             Body("p0", Planet, P(0, 0, 0), P(0, 0, 0), 1500, 800)>> }
    /\ fabricY = [k \in FabricVertices |-> VertexY(k)]
    /\ gridY = [k \in GridVertices |-> VertexY(k)]
    /\ frames = 0
    /\ lastOp = "addObject"
    /\ known = FALSE
    /\ pre = <<>>
    /\ log = {}
    /\ InitHome

Run ==
    /\ frames < MaxRun
    /\ Step

\* The step of the frame counter that every Run step makes
Tick ==
    /\ frames < MaxRun
    /\ frames' = frames + 1

\* The render loop calls the frame callbacks on every display frame: a frame
\* that can run does run.  All steps being Run steps, the fairness is stated
\* on the counter.
SpecScenario == InitScenario /\ [][Run]_vars /\ WF_frames(Tick)

---------------------------------------------------------------------------
\* The Home page

\* The effects of the first render: setGridPoints(points) (line 285) and
\* onPlaneReady(gridRef.current), that is setPlaneMesh(mesh) (lines 291, 544)
Mount ==
    /\ ~home.planeMesh
    /\ home' = [home EXCEPT !.planeMesh = TRUE, !.gridPoints = TRUE]
    /\ UNCHANGED <<shown, plane, clock, events, assigned, fresh>>
    /\ UNCHANGED storeVars

\* React renders: handlers and callbacks now close over the current state
Render ==
    /\ shown # home
    /\ shown' = home
    /\ UNCHANGED <<home, plane, clock, events, assigned, fresh>>
    /\ UNCHANGED storeVars

\* Time passes between two readings of Date.now()
Elapse ==
    /\ clock < MaxClock
    /\ clock' = clock + 1
    /\ UNCHANGED <<home, shown, plane, events, assigned, fresh>>
    /\ UNCHANGED storeVars

\* onClick={() => setSelectedSize(...)}
SetSelectedSize ==
    /\ events < MaxEvents
    /\ \E s \in {"small", "medium", "large"} :
         /\ s # home.selectedSize
         /\ home' = [home EXCEPT !.selectedSize = s]
    /\ events' = events + 1
    /\ UNCHANGED <<shown, plane, clock, assigned, fresh>>
    /\ UNCHANGED storeVars

\* addObject(type) (lines 547-570): planeMesh and selectedSize are those of
\* the last render, the list is the current one (functional update)
HomeAddObject ==
    /\ events < MaxEvents
    /\ Len(home.objects) < MaxHome
    /\ \E type \in {"planet", "blackHole"} :
         home' = [home EXCEPT !.objects =
                    Append(@, newObject(type,
                                        IF shown.planeMesh THEN plane[0] ELSE 0,
                                        sizeProperties[shown.selectedSize],
                                        clock))]
    /\ events' = events + 1
    /\ assigned' = assigned \cup {clock}
    /\ fresh' = (clock \notin assigned)
    /\ UNCHANGED <<shown, plane, clock>>
    /\ UNCHANGED storeVars

\* onDelete={() => removeObject(obj.id)} of a rendered body (lines 572-574):
\* the list filtered is that of the last render
HomeRemoveObject ==
    /\ events < MaxEvents
    /\ \E k \in 1..Len(shown.objects) :
         home' = [home EXCEPT !.objects =
                    filterId(shown.objects, shown.objects[k].id)]
    /\ events' = events + 1
    /\ UNCHANGED <<shown, plane, clock, assigned, fresh>>
    /\ UNCHANGED storeVars

\* onPositionChange of a rendered body while it is dragged (lines 460-464,
\* 576-585): the list mapped is that of the last render
UpdateObjectPosition ==
    /\ events < MaxEvents
    /\ \E k \in 1..Len(shown.objects), newPosition \in Drops :
         home' = [home EXCEPT !.objects =
                    mapPosition(shown.objects, shown.objects[k].id,
                                newPosition)]
    /\ events' = events + 1
    /\ UNCHANGED <<shown, plane, clock, assigned, fresh>>
    /\ UNCHANGED storeVars

\* The useFrame callback of SpaceTimeGrid (lines 296-339), on the objects
\* and the gridPoints of the last render; without gridPoints every vertex is
\* skipped
GridFrame ==
    /\ home.planeMesh
    /\ plane' = IF shown.gridPoints
                  THEN [p \in PlaneSamples |->
                          Distort(shown.objects, 1, PointX(p), PointZ(p), 0)]
                ELSE plane
    /\ plane' # plane
    /\ UNCHANGED <<home, shown, clock, events, assigned, fresh>>
    /\ UNCHANGED storeVars

NextHome ==
    \/ Mount
    \/ Render
    \/ Elapse
    \/ SetSelectedSize
    \/ HomeAddObject
    \/ HomeRemoveObject
    \/ UpdateObjectPosition
    \/ GridFrame

SpecHome == Init /\ [][NextHome]_vars

---------------------------------------------------------------------------
\* Properties of a frame.  pre is the store when the last frame started,
\* objects the store the frame left, log what the physics callback did.

AfterFrame == lastOp = "frame"

Bodies(list) == {list[k] : k \in 1..Len(list)}

\* The bodies the store holds under an id
Kept(id) == {b \in Bodies(objects) : b.id = id}

Inside(p) ==
    /\ \A c \in 1..3 : ~IsNaN(p[c])
    /\ Abs(p[1]) <= gridSize * Unit
    /\ Abs(p[3]) <= gridSize * Unit
    /\ Abs(p[2]) <= yLimit * Unit

\* Centre distance of two bodies
Apart(a, b) ==
    Hypot(Minus(b.position[1], a.position[1]),
          Minus(b.position[2], a.position[2]),
          Minus(b.position[3], a.position[3]))

Touching(a, b) == Lt(Apart(a, b), a.radius + b.radius)

Finite(v) == \A c \in 1..3 : ~IsNaN(v[c])

\* C1: after a frame, whenever a planet and a black hole were both inside the
\* bounds with their centres closer than the sum of their radii, the store no
\* longer holds the planet and still holds the black hole, with the mass and
\* the radius it had.
PlanetAbsorbed ==
    AfterFrame =>
      \A a, b \in Bodies(pre) :
        ( /\ a.type = Planet /\ b.type = BlackHole
          /\ Inside(a.position) /\ Inside(b.position)
          /\ Touching(a, b) )
        => /\ Kept(a.id) = {}
           /\ \E k \in Kept(b.id) : k.mass = b.mass /\ k.radius = b.radius

\* v and w are opposite, non-zero, and parallel to d
HeadOn(d, v, w) ==
    /\ Finite(v) /\ Finite(w) /\ Finite(d)
    /\ \A c \in 1..3 : w[c] = 0 - v[c]
    /\ v # <<0, 0, 0>>
    /\ d[1] * v[2] = d[2] * v[1]
    /\ d[2] * v[3] = d[3] * v[2]
    /\ d[1] * v[3] = d[3] * v[1]

\* C2: two overlapping planets of equal mass whose velocities are +v and -v
\* along the line of centres have exchanged their velocities after the frame.
\* (For equal masses the collision formula returns the other body's velocity
\* whatever the gravity increment was.)
EqualMassSwap ==
    (AfterFrame /\ Len(pre) = 2 /\ Len(objects) = 2) =>
      ( ( /\ pre[1].type = Planet /\ pre[2].type = Planet
          /\ pre[1].mass = pre[2].mass
          /\ Touching(pre[1], pre[2])
          /\ HeadOn(Delta(pre[1], pre[2]), pre[1].velocity, pre[2].velocity) )
        => /\ objects[1].velocity = pre[2].velocity
           /\ objects[2].velocity = pre[1].velocity )

\* m1 * v1 + m2 * v2 along one axis
Momentum(a, b, c) == a.mass * a.velocity[c] + b.mass * b.velocity[c]

\* C3: two overlapping planets (at different positions) carry the same total
\* momentum after the frame as before it, up to the rounding of the quotients.
MomentumConserved ==
    (AfterFrame /\ Len(pre) = 2 /\ Len(objects) = 2) =>
      ( ( /\ pre[1].type = Planet /\ pre[2].type = Planet
          /\ Touching(pre[1], pre[2])
          /\ Gt(Apart(pre[1], pre[2]), 0)
          /\ Finite(pre[1].velocity) /\ Finite(pre[2].velocity) )
        => /\ Finite(objects[1].velocity) /\ Finite(objects[2].velocity)
           /\ \A c \in 1..3 :
                Abs(Momentum(objects[1], objects[2], c)
                    - Momentum(pre[1], pre[2], c))
                  <= 8 * (pre[1].mass + pre[2].mass) )

Planets(list) == {b \in Bodies(list) : b.type = Planet}

Holes(list) == {b \in Bodies(list) : b.type = BlackHole}

Both(list) == Planets(list) # {} /\ Holes(list) # {}

\* Distance between the planet and the black hole of the scenario
Separation(list) ==
    Apart(CHOOSE a \in Planets(list) : TRUE, CHOOSE b \in Holes(list) : TRUE)

OnlyTheHole ==
    /\ Len(objects) = 1
    /\ objects[1].type = BlackHole
    /\ objects[1].mass = 7500 /\ objects[1].radius = 2000

SeenFrom(i, j) == IF j < i THEN Move(pre[j]) ELSE pre[j]

Far(i, j) == Gt(Apart(pre[i], SeenFrom(i, j)), cutoff * Unit)

\* C5: in a frame, a pair (i, j) at a distance above the cutoff receives no
\* gravity increment and no collision rule; a body all of whose pairs are
\* above the cutoff keeps exactly the velocity it had.
CutoffRespected ==
    AfterFrame =>
      /\ \A e \in log :
           /\ e.distance = Apart(pre[e.i], SeenFrom(e.i, e.j))
           /\ Far(e.i, e.j) => (~e.gravity /\ e.collision = "none")
      /\ \A i \in 1..Len(pre) :
           (\A j \in 1..Len(pre) : j # i => Far(i, j))
           => \A b \in Kept(pre[i].id) : b.velocity = pre[i].velocity

\* C5, witness: a frame that visited a pair above the cutoff and a pair
\* within it
FarPairVisited ==
    /\ AfterFrame
    /\ \E e \in log : Far(e.i, e.j)
    /\ \E e \in log : e.gravity

EmptyFrame ==
    (AfterFrame /\ pre = <<>>) =>
      /\ objects = <<>>
      /\ \A k \in FabricVertices : fabricY[k] = 0
      /\ \A k \in GridVertices : gridY[k] = 0

\* C7, witness: the second of two frames on an empty store
EmptyFrameTwice == AfterFrame /\ pre = <<>> /\ frames >= 2

\* C8: the ids of the bodies in Home's list are pairwise distinct, and the id
\* Home.addObject gives a new body is one it has not given before, also when
\* two calls read the same clock.
IdsUnique ==
    /\ \A j, k \in 1..Len(home.objects) :
         j # k => home.objects[j].id # home.objects[k].id
    /\ fresh

\* C9: updateObject with an object whose id is not listed and removeObject
\* with an id that is not listed leave the list as it is; so does removing
\* again, in one frame, an id that was just removed.
UnknownIdIgnored ==
    /\ [][(lastOp' \in {"updateObject", "removeObject"} /\ ~known')
            => objects' = objects]_vars
    /\ [](\A id \in Ids :
            /\ RemoveAll(objects, <<id, id>>) = removeObject(objects, id)
            /\ id \notin IdsOf(removeObject(objects, id)))

\* C9, witness: removeObject was called with an id that a non-empty list did
\* not hold
UnknownIdRemoved == lastOp = "removeObject" /\ ~known /\ objects # <<>>

\* C10: after a frame every velocity in the store is a finite number, also
\* when two bodies were at the same position.
VelocitiesFinite ==
    AfterFrame => \A b \in Bodies(objects) : Finite(b.velocity)

\* The distance the deformation callback computes from the only body of pre
\* to fabric vertex k
Reach(k) ==
    Hypot(Minus(VertexX(k), pre[1].position[1]), 0,
          Minus(VertexZ(k), pre[1].position[3]))

OneBodyFrame == AfterFrame /\ Len(pre) = 1 /\ Finite(pre[1].position)

\* C11 as stated: with a single body, of two fabric vertices the one nearer
\* to the body has the strictly greater height magnitude, whatever the two
\* distances are (also beyond mass * 4).
NearerIsDeeper ==
    OneBodyFrame =>
      \A k1, k2 \in FabricVertices :
        Lt(Reach(k1), Reach(k2)) => Abs(fabricY[k1]) > Abs(fabricY[k2])

\* C11, amended: with a single body, of two fabric vertices both at most
\* mass * 4 away the nearer one has the strictly greater height magnitude; a
\* vertex further than mass * 4 away has height 0, so beyond that distance the
\* magnitude no longer decreases.
NearerIsDeeperInRange ==
    OneBodyFrame =>
      /\ \A k1, k2 \in FabricVertices :
           (Lt(Reach(k1), Reach(k2)) /\ ~Gt(Reach(k2), pre[1].mass * 4))
           => Abs(fabricY[k1]) > Abs(fabricY[k2])
      /\ \A k \in FabricVertices :
           Gt(Reach(k), pre[1].mass * 4) => fabricY[k] = 0

\* C11, witness: a frame on a single body with two vertices in its range at
\* different distances and two beyond it at different distances
RangeStraddled ==
    /\ OneBodyFrame
    /\ \E k1, k2 \in FabricVertices :
         Lt(Reach(k1), Reach(k2)) /\ ~Gt(Reach(k2), pre[1].mass * 4)
    /\ \E k1, k2 \in FabricVertices :
         Lt(Reach(k1), Reach(k2)) /\ Gt(Reach(k1), pre[1].mass * 4)

\* The body of the other type with the same mass, radius, position and
\* velocity
Twin(b) ==
    [b EXCEPT !.type = IF b.type = BlackHole THEN Planet ELSE BlackHole]

\* The height the deformation callback gives fabric vertex k for the twin of
\* the only body of pre
TwinHeight(k) == HeightAt(<<Twin(pre[1])>>, VertexX(k), VertexZ(k))

\* C12 as stated: at every fabric vertex within range, a black hole makes a
\* strictly deeper depression than a planet of the same mass at the same
\* position.
HoleIsDeeper ==
    (OneBodyFrame /\ pre[1].type = BlackHole) =>
      \A k \in FabricVertices :
        ~Gt(Reach(k), pre[1].mass * 4) => fabricY[k] < TwinHeight(k)

\* C12, amended: in SpaceTimeFabric a black hole and a planet of the same
\* mass at the same position make the same depression at every fabric
\* vertex, the type of a body playing no part in the deformation.
TypeMakesNoDepth ==
    OneBodyFrame =>
      \A k \in FabricVertices : fabricY[k] = TwinHeight(k)

\* C12, witness: a frame on a single black hole that depressed a vertex
HoleDepression ==
    /\ OneBodyFrame
    /\ pre[1].type = BlackHole
    /\ \E k \in FabricVertices :
         ~Gt(Reach(k), pre[1].mass * 4) /\ fabricY[k] < 0

\* The bodies of pre that the frame did not remove, as the frame found them
Survivors == SelectSeq(pre, LAMBDA b : Kept(b.id) # {})

\* C13 as stated: the heights a frame writes are those of the bodies that
\* remain after its removals; a body the frame removed contributes nothing.
\* (The surviving bodies are taken where the frame found them, so that only
\* the removed bodies can make a difference.)
HeightsAfterRemoval ==
    AfterFrame =>
      /\ \A k \in FabricVertices :
           fabricY[k] = HeightAt(Survivors, VertexX(k), VertexZ(k))
      /\ \A k \in GridVertices :
           gridY[k] = HeightAt(Survivors, VertexX(k), VertexZ(k))

\* C13, amended: the heights a frame writes are those of the body list as it
\* was when the frame started, before the frame moved or removed any body: a
\* body the frame removes still contributes to the heights of that frame.
HeightsFromFrameStart ==
    AfterFrame =>
      /\ \A k \in FabricVertices :
           fabricY[k] = HeightAt(pre, VertexX(k), VertexZ(k))
      /\ \A k \in GridVertices :
           gridY[k] = HeightAt(pre, VertexX(k), VertexZ(k))

\* C13, witness: a frame removed a body and a vertex carries its depression
RemovedBodyDeforms ==
    /\ AfterFrame
    /\ Survivors # pre
    /\ \E k \in FabricVertices :
         /\ fabricY[k] # NaN
         /\ fabricY[k] < HeightAt(Survivors, VertexX(k), VertexZ(k))

\* The pull of pre[j] on pre[i] along axis c, as the turn of pre[i] computes
\* it; nothing when j is i or beyond the cutoff
Pull(i, j, c) ==
    IF j = i \/ Far(i, j) THEN 0
    ELSE Force(Delta(pre[i], SeenFrom(i, j)),
               Apart(pre[i], SeenFrom(i, j)),
               pre[j].mass)[c]

\* The sum of the pulls on pre[i] of the bodies from pre[j] on
RECURSIVE PullSum(_, _, _)
PullSum(i, j, c) ==
    IF j > Len(pre) THEN 0
    ELSE Plus(Pull(i, j, c), PullSum(i, j + 1, c))

\* No collision rule was applied to pre[i] in the last frame
Quiet(i) == \A e \in log : e.i = i => e.collision = "none"

\* C14: after a frame, the velocity of a body that took part in no collision
\* is the velocity it had plus the sum of the pulls of all the other bodies
\* within the cutoff.
AllPullsCount ==
    AfterFrame =>
      \A i \in 1..Len(pre) :
        (Quiet(i) /\ Finite(pre[i].velocity))
        => \A b \in Kept(pre[i].id) :
             \A c \in 1..3 :
               b.velocity[c] = Plus(pre[i].velocity[c], PullSum(i, 1, c))

\* The entries of the last frame in which a planet was absorbed
Absorptions ==
    {e \in log : e.collision = "absorbed" /\ pre[e.i].type = Planet}

Reached(i, j) == \A f \in log : (f.i = i /\ f.j < j) => f.collision # "absorbed"

HolesStay ==
    AfterFrame =>
      \A a, b \in Bodies(pre) :
        ( /\ a.id # b.id
          /\ a.type = BlackHole /\ b.type = BlackHole
          /\ Inside(a.position) /\ Inside(b.position)
          /\ Touching(a, b) )
        => Kept(a.id) # {} /\ Kept(b.id) # {}

\* The bodies of a list of Home that carry an id, in order
WithId(list, id) == SelectSeq(list, LAMBDA obj : obj.id = id)

\* The ids whose bodies a step of Home adds, removes or changes
Touched ==
    {id \in IdsOf(home.objects) \cup IdsOf(home'.objects) :
        WithId(home.objects, id) # WithId(home'.objects, id)}

\* C17: no call of Home undoes the effect of an earlier one.  Every call
\* adds, removes or moves the bodies of one id, so a step of Home leaves the
\* bodies of every other id as the calls before it left them.
NoCallLost == [][Cardinality(Touched) <= 1]_vars

====
